---- MODULE Spec2Model ----
(***************************************************************************)
(* A model of toggl_linux_rs: the daemon loop of src/main.rs (sample timer *)
(* and block-aligned analysis timer multiplexed by one select loop), the   *)
(* idle tracker and sample gate of src/data_collector.rs, and the          *)
(* reconciliation of an estimate into the ledger in src/event.rs.          *)
(*                                                                         *)
(* Time is in whole seconds.  Confidence values are in hundredths.         *)
(***************************************************************************)
EXTENDS Integers, Sequences, FiniteSets, TLC

(***************************************************************************)
(* Option<T>: None is the empty tuple, Some(v) the one-element tuple.      *)
(***************************************************************************)
None == << >>

Some(v) == << v >>

IsSome(o) == Len(o) = 1

Unwrap(o) == o[1]

Min2(a, b) == IF a <= b THEN a ELSE b

(***************************************************************************)
(* Strings are tuples of one-character strings, so that to_lowercase,      *)
(* contains and split_whitespace are computed character by character.      *)
(***************************************************************************)
UpperChars == << "A", "B", "C", "D", "E", "F", "G", "H", "I", "J", "K", "L", "M", "N", "O", "P", "Q", "R", "S", "T", "U", "V", "W", "X", "Y", "Z" >>

LowerChars == << "a", "b", "c", "d", "e", "f", "g", "h", "i", "j", "k", "l", "m", "n", "o", "p", "q", "r", "s", "t", "u", "v", "w", "x", "y", "z" >>

LowerChar(c) ==
    IF \E i \in 1..Len(UpperChars) : UpperChars[i] = c
    THEN LowerChars[CHOOSE i \in 1..Len(UpperChars) : UpperChars[i] = c]
    ELSE c

\* str::to_lowercase
ToLowercase(s) == [i \in 1..Len(s) |-> LowerChar(s[i])]

\* str::contains(&str)
Contains(s, sub) ==
    \E i \in 0..(Len(s) - Len(sub)) : SubSeq(s, i + 1, i + Len(sub)) = sub

RECURSIVE SplitFrom(_, _, _)
SplitFrom(s, i, word) ==
    IF i > Len(s)
    THEN IF word = << >> THEN << >> ELSE << word >>
    ELSE IF s[i] = " "
         THEN IF word = << >>
              THEN SplitFrom(s, i + 1, << >>)
              ELSE << word >> \o SplitFrom(s, i + 1, << >>)
         ELSE SplitFrom(s, i + 1, Append(word, s[i]))

\* str::split_whitespace().collect()
SplitWhitespace(s) == SplitFrom(s, 1, << >>)

\* Vec::contains
SeqContains(seq, x) == \E i \in 1..Len(seq) : seq[i] = x

\* "private"
StrPrivate == << "p", "r", "i", "v", "a", "t", "e" >>

\* "incognito"
StrIncognito == << "i", "n", "c", "o", "g", "n", "i", "t", "o" >>

\* "Mail"
StrMail == << "M", "a", "i", "l" >>

\* "Writing Report"
StrWritingReport == << "W", "r", "i", "t", "i", "n", "g", " ", "R", "e", "p", "o", "r", "t" >>

\* "Report"
StrReport == << "R", "e", "p", "o", "r", "t" >>

\* "Writing"
StrWriting == << "W", "r", "i", "t", "i", "n", "g" >>

\* "Inbox - Private Browsing"
StrTitlePrivate == << "I", "n", "b", "o", "x", " ", "-", " ", "P", "r", "i", "v", "a", "t", "e", " ", "B", "r", "o", "w", "s", "i", "n", "g" >>

\* "INCOGNITO tab"
StrTitleIncognito == << "I", "N", "C", "O", "G", "N", "I", "T", "O", " ", "t", "a", "b" >>

\* "REPORT"
StrUpperReport == << "R", "E", "P", "O", "R", "T" >>

\* "Draft"
StrDraft == << "D", "r", "a", "f", "t" >>

\* "Report Writing"
StrReportWriting == << "R", "e", "p", "o", "r", "t", " ", "W", "r", "i", "t", "i", "n", "g" >>

\* "Weekly Report"
StrWeeklyReport == << "W", "e", "e", "k", "l", "y", " ", "R", "e", "p", "o", "r", "t" >>

\* "Report draft"
StrTitleReport == << "R", "e", "p", "o", "r", "t", " ", "d", "r", "a", "f", "t" >>

(***************************************************************************)
(* Bounds of the model.                                                    *)
(***************************************************************************)
\* The daemon is observed for this many seconds after startup.
MaxTime == 1350

(***************************************************************************)
(* Program constants.                                                      *)
(***************************************************************************)
\* DataCollector::new: idle_threshold = Duration::from_secs(300)
IdleThresholdSecs == 300

\* DataCollector::is_idle: the tracker's window is refreshed after 900 s
RefreshSecs == 900

\* DataCollector::collect: a tick is suppressed from 450 s of idle time on
SuppressSecs == 450

\* get_recent_data: rows of the last 15 minutes
RecentMinutes == 15

\* default_confidence_threshold: 0.5, in hundredths
DefaultConfidenceThreshold == 50

\* default_collect_interval: 60 s
DefaultCollectInterval == 60

\* analyze_and_register: analysis_result.confidence >= 0.5, in hundredths
GateConfidence == 50

\* register_to_toggl_impl: analysis.base.confidence < 0.5, in hundredths
ImplConfidence == 50

\* register_to_toggl_impl: start_time - Duration::hours(1), in seconds
LookbackSecs == 3600

\* register_to_toggl_impl: secs_diff.abs() <= 1800
AdjacencySecs == 1800

\* register_to_toggl_impl: similarity_threshold = 0.10, in hundredths
SimilarityThreshold == 10

(***************************************************************************)
(* Configuration (config.rs GeneralConfig) and the inputs of a tick.       *)
(***************************************************************************)
\* general.collect_interval_secs values the daemon is run with
CollectIntervals == {300, 450}

\* general.time_block_division values the daemon is run with
Divisions == {4}

\* wall-clock second of the hour at which the daemon starts
StartupOffsets == {0, 600}

\* UserIdle::get_time(): Err, or Ok with the idle time in milliseconds
IdleReadings ==
    {[ok |-> FALSE, ms |-> 0]} \cup
    {[ok |-> TRUE, ms |-> m] :
        m \in {IdleThresholdSecs * 1000, IdleThresholdSecs * 1000 + 1}}

VARIABLES
    \* ---- daemon (main.rs run_daemon) ----
    now,                  \* seconds of monotonic time since the loop was set up
    startup,              \* wall-clock second of the hour at startup
    cfg,                  \* the configuration the daemon runs with
    collect_timer,        \* next deadline of collect_timer
    analysis_timer,       \* next deadline of analysis_timer
    collected_data_count, \* run_daemon's counter of Ok collects
    pc,                   \* "select": awaiting the timers; "analyze": inside analyze_and_register
    analysis_began,       \* the time the analysis in progress was started at
    \* ---- DataCollector ----
    idle_start,           \* Option<Instant>
    total_idle_time,      \* Duration, seconds
    block_start,          \* Instant
    window_data,          \* rows of table window_data: the samples' timestamps
    last_collect,         \* what the last serviced sample tick did
    \* ---- the ledger (Toggl) and the reconciler (event.rs) ----
    projects,             \* the workspace's projects, as get_projects lists them
    ledger,               \* the time entries, in creation order; an entry's id is its index
    cycle,                \* what the last analyze_and_register run did
    \* ---- single calls of the matcher and of the classifiers ----
    matching,             \* the arguments and the outcome of an infer_project_id call
    classified            \* the arguments and the outcome of a classifier call

daemonVars == << now, startup, cfg, collect_timer, analysis_timer,
                 collected_data_count, pc, analysis_began >>

collectorVars == << idle_start, total_idle_time, block_start, window_data, last_collect >>

reconcileVars == << projects, ledger, cycle >>

callVars == << matching, classified >>

vars == << daemonVars, collectorVars, reconcileVars, callVars >>

\* No call of the matcher or of a classifier has been made.
NoCall == [done |-> FALSE]

(***************************************************************************)
(* The idle tracker: DataCollector::is_idle.                               *)
(***************************************************************************)
\* idle_time.as_milliseconds() > self.idle_threshold.as_millis()
OverThreshold(ms) == ms > IdleThresholdSecs * 1000

\* block_start.elapsed() >= Duration::from_secs(900)
RefreshDue(bstart, t) == t - bstart >= RefreshSecs

\* The value is_idle returns for a reading: the comparison for a reading
\* that was obtained, false when get_time() failed.
IsIdleFailClosed(reading) == IF reading.ok THEN OverThreshold(reading.ms) ELSE TRUE

IsIdleResult(reading) == IF reading.ok THEN OverThreshold(reading.ms) ELSE FALSE

\* The tracker's fields after the idle-span bookkeeping of one reading.
SpanKeepOpen(tr, idle, t) ==
    IF idle /\ tr.idle_start = None
    THEN [tr EXCEPT !.idle_start = Some(t)]
    ELSE tr

SpanUpdateDropSpan(tr, idle, t) ==
    IF idle /\ tr.idle_start = None
    THEN [tr EXCEPT !.idle_start = Some(t)]
    ELSE IF ~idle /\ IsSome(tr.idle_start)
         THEN [tr EXCEPT !.idle_start = None]
         ELSE tr

SpanUpdate(tr, idle, t) ==
    IF idle /\ tr.idle_start = None
    THEN [tr EXCEPT !.idle_start = Some(t)]
    ELSE IF ~idle /\ IsSome(tr.idle_start)
         THEN [tr EXCEPT !.idle_start = None,
                         !.total_idle_time = @ + (t - Unwrap(tr.idle_start))]
         ELSE tr

\* The 15-minute refresh of the tracker.
BlockReset(tr, t) ==
    IF RefreshDue(tr.block_start, t)
    THEN [tr EXCEPT !.block_start = t, !.total_idle_time = 0, !.idle_start = None]
    ELSE tr

\* The tracker's fields after is_idle ran on a reading at time t: nothing is
\* touched when the reading failed.
TrackerAfter(tr, reading, t) ==
    IF reading.ok
    THEN BlockReset(SpanUpdate(tr, OverThreshold(reading.ms), t), t)
    ELSE tr

(***************************************************************************)
(* The sample gate: DataCollector::collect.                                *)
(***************************************************************************)
\* current_idle_time: total_idle_time plus the idle span in progress
CurrentIdleTime(tr, t) ==
    IF IsSome(tr.idle_start)
    THEN tr.total_idle_time + (t - Unwrap(tr.idle_start))
    ELSE tr.total_idle_time

\* current_idle_time >= Duration::from_secs(450)
SuppressedStrict(cur) == cur > SuppressSecs

Suppressed(cur) == cur >= SuppressSecs

\* get_calendar_events is called only with a google_calendar section; its
\* error is returned by collect (the ? operator).
CalendarFails(calendar_on, calendar_ok) == calendar_on /\ ~calendar_ok

\* What collect returns, how far it got ("suppressed": the early return;
\* "window", "calendar": the probe whose error it returned; "saved": save_data)
\* and whether the sample was written.
CollectOutcome(cur, window_ok, calendar_on, calendar_ok) ==
    IF Suppressed(cur) THEN [result |-> "Ok", stage |-> "suppressed", wrote |-> FALSE]
    ELSE IF ~window_ok THEN [result |-> "Err", stage |-> "window", wrote |-> FALSE]
    ELSE IF CalendarFails(calendar_on, calendar_ok)
         THEN [result |-> "Err", stage |-> "calendar", wrote |-> FALSE]
         ELSE [result |-> "Ok", stage |-> "saved", wrote |-> TRUE]

Tracker == [idle_start |-> idle_start, total_idle_time |-> total_idle_time,
            block_start |-> block_start]

NoCollect ==
    [ticked |-> FALSE, reading |-> [ok |-> FALSE, ms |-> 0], is_idle |-> FALSE,
     result |-> "Ok", stage |-> "suppressed", wrote |-> FALSE,
     closed_span |-> FALSE, refreshed |-> FALSE]

(***************************************************************************)
(* The project matcher: infer_project_id.  Scores are in thousandths.      *)
(***************************************************************************)
\* score = 1.0: the names are equal
ScoreExact == 1000

\* score = 0.8: project_name_lower.contains(&activity_lower)
ScoreProjectContains == 800

\* score = 0.7: activity_lower.contains(&project_name_lower)
ScoreActivityContains == 700

\* score = word_match_score * 0.6
ScoreWordFactor == 600

\* score += 0.2: the window title contains the project name
BonusWindow == 200

\* score += 0.3: the calendar event title contains the project name
BonusCalendar == 300

\* match_candidates[0].2 >= 0.5
ScoreSelect == 500

\* The number of the project's words found among the activity's words.
RECURSIVE MatchingWords(_, _, _)
MatchingWords(project_words, activity_words, i) ==
    IF i > Len(project_words) THEN 0
    ELSE (IF SeqContains(activity_words, project_words[i]) THEN 1 ELSE 0)
         + MatchingWords(project_words, activity_words, i + 1)

\* The chain with the word score taken over the activity's words
BaseScoreOverActivityWords(project_name_lower, activity_lower) ==
    IF project_name_lower = activity_lower THEN ScoreExact
    ELSE IF Contains(project_name_lower, activity_lower) THEN ScoreProjectContains
    ELSE IF Contains(activity_lower, project_name_lower) THEN ScoreActivityContains
    ELSE LET project_words == SplitWhitespace(project_name_lower)
             activity_words == SplitWhitespace(activity_lower)
             matching_words == MatchingWords(project_words, activity_words, 1)
         IN  IF matching_words > 0
             THEN (ScoreWordFactor * matching_words)
                    \div (IF Len(activity_words) > 1 THEN Len(activity_words) + 1 ELSE 1)
             ELSE 0

\* The if / else-if chain on the lower-cased names.
BaseScore(project_name_lower, activity_lower) ==
    IF project_name_lower = activity_lower THEN ScoreExact
    ELSE IF Contains(project_name_lower, activity_lower) THEN ScoreProjectContains
    ELSE IF Contains(activity_lower, project_name_lower) THEN ScoreActivityContains
    ELSE LET project_words == SplitWhitespace(project_name_lower)
             activity_words == SplitWhitespace(activity_lower)
             matching_words == MatchingWords(project_words, activity_words, 1)
         IN  IF matching_words > 0
             THEN (ScoreWordFactor * matching_words)
                    \div (IF Len(project_words) > 1 THEN Len(project_words) ELSE 1)
             ELSE 0

\* The bonus of an optional title that contains the project name.
TitleBonus(title_lower, project_name_lower, bonus) ==
    IF IsSome(title_lower) /\ Contains(Unwrap(title_lower), project_name_lower)
    THEN bonus ELSE 0

\* Option<String>::map(to_lowercase)
LowerOpt(o) == IF IsSome(o) THEN Some(ToLowercase(Unwrap(o))) ELSE None

\* The score with the larger of the two bonuses instead of their sum
ProjectScoreLargerBonus(project, analysis) ==
    LET name == ToLowercase(project.name)
        window == TitleBonus(LowerOpt(analysis.window_title), name, BonusWindow)
        calendar == TitleBonus(LowerOpt(analysis.calendar_event), name, BonusCalendar)
    IN  BaseScore(name, ToLowercase(analysis.activity))
        + (IF window > calendar THEN window ELSE calendar)

\* score after the five steps of the loop body
ProjectScore(project, analysis) ==
    LET name == ToLowercase(project.name)
    IN  BaseScore(name, ToLowercase(analysis.activity))
        + TitleBonus(LowerOpt(analysis.window_title), name, BonusWindow)
        + TitleBonus(LowerOpt(analysis.calendar_event), name, BonusCalendar)

\* match_candidates: the projects with score > 0, in listing order
RECURSIVE MatchCandidates(_, _, _)
MatchCandidates(project_list, analysis, i) ==
    IF i > Len(project_list) THEN << >>
    ELSE LET score == ProjectScore(project_list[i], analysis)
         IN  (IF score > 0 THEN << [id |-> project_list[i].id, score |-> score] >> ELSE << >>)
             \o MatchCandidates(project_list, analysis, i + 1)

\* Insert c before the elements of the same score: an order that is not stable
RECURSIVE InsertByScoreBeforeEqual(_, _)
InsertByScoreBeforeEqual(sorted, c) ==
    IF sorted = << >> THEN << c >>
    ELSE IF Head(sorted).score > c.score
         THEN << Head(sorted) >> \o InsertByScoreBeforeEqual(Tail(sorted), c)
         ELSE << c >> \o sorted

\* Insert c behind every element whose score is not smaller: a stable
\* descending order, as sort_by with b.2.partial_cmp(&a.2) gives.
RECURSIVE InsertByScore(_, _)
InsertByScore(sorted, c) ==
    IF sorted = << >> THEN << c >>
    ELSE IF Head(sorted).score >= c.score
         THEN << Head(sorted) >> \o InsertByScore(Tail(sorted), c)
         ELSE << c >> \o sorted

RECURSIVE SortByScore(_)
SortByScore(cands) ==
    IF cands = << >> THEN << >>
    ELSE InsertByScore(SortByScore(SubSeq(cands, 1, Len(cands) - 1)), cands[Len(cands)])

\* infer_project_id once get_projects has returned the listing
InferProjectId(project_list, analysis) ==
    LET match_candidates == SortByScore(MatchCandidates(project_list, analysis, 1))
    IN  IF match_candidates # << >> /\ match_candidates[1].score >= ScoreSelect
        THEN Some(match_candidates[1].id)
        ELSE None

(***************************************************************************)
(* The classifiers: analyze_locally, categorize_by_keywords and            *)
(* parse_gpt_response (analysis.rs).  A confidence is the pair of a count  *)
(* and the number of samples.                                              *)
(***************************************************************************)
\* The labels of categorize_by_keywords (Japanese in the source): mail check,
\* document writing, schedule check, video watching, chat / communication,
\* web browsing, terminal work, programming, office work, image editing,
\* meeting, other activity.
LabelMail == "mail check"

LabelDocument == "document writing"

LabelSchedule == "schedule check"

LabelVideo == "video watching"

LabelChat == "chat / communication"

LabelWeb == "web browsing"

LabelTerminal == "terminal work"

LabelProgramming == "programming"

LabelOffice == "office work"

LabelImage == "image editing"

LabelMeeting == "meeting"

LabelOther == "other activity"

\* "Firefox - Gmail"
StrFirefoxGmail == << "F", "i", "r", "e", "f", "o", "x", " ", "-", " ", "G", "m", "a", "i", "l" >>

\* "Chrome - Mail"
StrChromeMail == << "C", "h", "r", "o", "m", "e", " ", "-", " ", "M", "a", "i", "l" >>

\* "Terminal"
StrTerminal == << "T", "e", "r", "m", "i", "n", "a", "l" >>

\* "TERMINAL"
StrUpperTerminal == << "T", "E", "R", "M", "I", "N", "A", "L" >>

\* categorize_by_keywords: the chain of contains tests on the lower-cased title
CategorizeByKeywords(title) ==
    LET t == ToLowercase(title)
    IN  IF Contains(t, << "f", "i", "r", "e", "f", "o", "x" >>) \/ Contains(t, << "c", "h", "r", "o", "m", "e" >>) \/ Contains(t, << "e", "d", "g", "e" >>)
        THEN IF Contains(t, << "g", "m", "a", "i", "l" >>) \/ Contains(t, << "m", "a", "i", "l" >>) THEN LabelMail
             ELSE IF Contains(t, << "g", "o", "o", "g", "l", "e", " ", "d", "o", "c" >>) \/ Contains(t, << "d", "o", "c", "u", "m", "e", "n", "t" >>) THEN LabelDocument
             ELSE IF Contains(t, << "c", "a", "l", "e", "n", "d", "a", "r" >>) THEN LabelSchedule
             ELSE IF Contains(t, << "y", "o", "u", "t", "u", "b", "e" >>) \/ Contains(t, << "v", "i", "d", "e", "o" >>) THEN LabelVideo
             ELSE IF Contains(t, << "c", "h", "a", "t" >>) \/ Contains(t, << "s", "l", "a", "c", "k" >>) \/ Contains(t, << "d", "i", "s", "c", "o", "r", "d" >>) THEN LabelChat
             ELSE LabelWeb
        ELSE IF Contains(t, << "t", "e", "r", "m", "i", "n", "a", "l" >>) \/ Contains(t, << "c", "o", "n", "s", "o", "l", "e" >>) \/ Contains(t, << "b", "a", "s", "h" >>) THEN LabelTerminal
        ELSE IF Contains(t, << "c", "o", "d", "e" >>) \/ Contains(t, << "v", "s", "c", "o", "d", "e" >>) \/ Contains(t, << "i", "n", "t", "e", "l", "l", "i", "j" >>) THEN LabelProgramming
        ELSE IF Contains(t, << "l", "i", "b", "r", "e", "o", "f", "f", "i", "c", "e" >>) \/ Contains(t, << "c", "a", "l", "c" >>) \/ Contains(t, << "w", "r", "i", "t", "e", "r" >>) THEN LabelOffice
        ELSE IF Contains(t, << "g", "i", "m", "p" >>) \/ Contains(t, << "p", "h", "o", "t", "o", "s", "h", "o", "p" >>) \/ Contains(t, << "i", "l", "l", "u", "s", "t", "r", "a", "t", "o", "r" >>) THEN LabelImage
        ELSE IF Contains(t, << "m", "e", "e", "t", "i", "n", "g" >>) \/ Contains(t, << "z", "o", "o", "m" >>) \/ Contains(t, << "t", "e", "a", "m", "s" >>) THEN LabelMeeting
        ELSE LabelOther

\* title_counts: the number of samples with the lower-cased title
TitleCount(data, title) ==
    Cardinality({i \in 1..Len(data) : ToLowercase(data[i]) = title})

\* The keys of title_counts
TitleKeys(data) == {ToLowercase(data[i]) : i \in 1..Len(data)}

\* The orders a HashMap<String, usize> with these keys can iterate in: the
\* hasher is seeded at random, any order of the keys can come out.
IterationOrders(keys) ==
    {o \in [1..Cardinality(keys) -> keys] :
        \A i, j \in DOMAIN o : i # j => o[i] # o[j]}

\* The loop that takes whatever title comes first in the iteration
MostFrequentFirstSeen(data, order, i, best) ==
    IF order = << >> THEN best
    ELSE [title |-> order[1], count |-> TitleCount(data, order[1])]

\* for (title, count) in &title_counts { if *count > most_frequent.1 ... }:
\* the first title, in iteration order, with the highest count
RECURSIVE MostFrequent(_, _, _, _)
MostFrequent(data, order, i, best) ==
    IF i > Len(order) THEN best
    ELSE LET count == TitleCount(data, order[i])
         IN  MostFrequent(data, order, i + 1,
                          IF count > best.count
                          THEN [title |-> order[i], count |-> count]
                          ELSE best)

\* The most alternatives analyze_locally returns
MaxAlternatives == 3

\* The alternatives: the other titles in iteration order, the first three
RECURSIVE Alternatives(_, _, _, _, _)
Alternatives(data, order, i, most_frequent, acc) ==
    IF i > Len(order) \/ Len(acc) >= MaxAlternatives THEN acc
    ELSE Alternatives(data, order, i + 1, most_frequent,
                      IF order[i] # most_frequent
                      THEN Append(acc, [activity |-> CategorizeByKeywords(order[i]),
                                        confidence |-> << TitleCount(data, order[i]),
                                                          Len(data) >>])
                      ELSE acc)

\* analyze_locally on the samples' window titles, the HashMap iterating in
\* the given order
AnalyzeLocally(data, order) ==
    IF data = << >> THEN [result |-> "Err", error |-> "NoData"]
    ELSE LET most_frequent == MostFrequent(data, order, 1, [title |-> << >>, count |-> 0])
         IN  [result |-> "Ok",
              activity |-> CategorizeByKeywords(most_frequent.title),
              confidence |-> << most_frequent.count, Len(data) >>,
              alternatives |-> Alternatives(data, order, 1, most_frequent.title, << >>),
              window_title |-> Some(most_frequent.title)]

\* serde_json::Value: a string, a number, an array, an object with the
\* members "activity", "confidence" and "alternatives" (JAbsent: no such
\* member), or another value (null, true, false).
JAbsent == [t |-> "absent"]

JNull == [t |-> "null"]

JStr(v) == [t |-> "string", s |-> v]

JNum(v) == [t |-> "number", n |-> v]

JArr(v) == [t |-> "array", a |-> v]

JObj(activity, confidence, alternatives) ==
    [t |-> "object",
     members |-> [activity |-> activity, confidence |-> confidence,
                  alternatives |-> alternatives]]

\* value[key]: Null for a value that is not an object or has no such member
Index(value, key) ==
    IF value.t = "object" /\ value.members[key] # JAbsent
    THEN value.members[key]
    ELSE JNull

\* The alternatives kept when an entry only needs a string activity
RECURSIVE KeepAlternativesByActivity(_, _)
KeepAlternativesByActivity(alts, i) ==
    IF i > Len(alts) THEN << >>
    ELSE (IF Index(alts[i], "activity").t = "string"
          THEN << [activity |-> Index(alts[i], "activity").s,
                   confidence |-> IF Index(alts[i], "confidence").t = "number"
                                  THEN Index(alts[i], "confidence").n ELSE 0] >>
          ELSE << >>)
         \o KeepAlternativesByActivity(alts, i + 1)

\* for alt in alts: the entries with alt["activity"].as_str() and
\* alt["confidence"].as_f64() both Some are pushed
RECURSIVE KeepAlternatives(_, _)
KeepAlternatives(alts, i) ==
    IF i > Len(alts) THEN << >>
    ELSE (IF /\ Index(alts[i], "activity").t = "string"
             /\ Index(alts[i], "confidence").t = "number"
          THEN << [activity |-> Index(alts[i], "activity").s,
                   confidence |-> Index(alts[i], "confidence").n] >>
          ELSE << >>)
         \o KeepAlternatives(alts, i + 1)

\* parse_gpt_response: content is a text that is not JSON, or the text of
\* the JSON value content.value
ParseGptResponse(content, data) ==
    IF data = << >> THEN [result |-> "Err", error |-> "No data available for analysis"]
    ELSE IF ~content.json
    THEN [result |-> "Err", error |-> "Failed to parse GPT response as JSON"]
    ELSE LET parsed == content.value
             activity == Index(parsed, "activity")
             confidence == Index(parsed, "confidence")
             alts == Index(parsed, "alternatives")
         IN  IF activity.t # "string"
             THEN [result |-> "Err", error |-> "No activity in response"]
             ELSE IF confidence.t # "number"
             THEN [result |-> "Err", error |-> "No confidence in response"]
             ELSE [result |-> "Ok",
                   activity |-> activity.s,
                   confidence |-> confidence.n,
                   alternatives |-> IF alts.t = "array"
                                    THEN KeepAlternatives(alts.a, 1) ELSE << >>,
                   window_title |-> Some(data[1])]

\* A text that is not JSON; an absent message content is read as ""
NotJson == [json |-> FALSE]

\* analyze_with_gpt from the request on: reply.sent is whether
\* client.chat().create returned a response, reply.choices its choices, each
\* the optional content of the message
AnalyzeWithGpt(reply, data) ==
    IF ~reply.sent THEN [result |-> "Err", error |-> "request failed"]
    ELSE IF reply.choices = << >>
    THEN [result |-> "Err", error |-> "No response from GPT"]
    ELSE ParseGptResponse(IF IsSome(reply.choices[1]) THEN Unwrap(reply.choices[1])
                          ELSE NotJson,
                          data)

(***************************************************************************)
(* The reconciler: analyze_and_register (main.rs), register_to_toggl and   *)
(* register_to_toggl_impl (event.rs).  An estimate's timestamp is in       *)
(* milliseconds; the ledger holds the formatted times, in whole seconds.   *)
(***************************************************************************)
Abs(x) == IF x < 0 THEN -x ELSE x

\* dt.format("%Y-%m-%dT%H:%M:%SZ"): the fraction of the second is dropped
FormatDatetimeForToggl(ms) == ms \div 1000

\* chrono::DateTime::parse_from_rfc3339 of a time the ledger returned
ParseFromRfc3339(secs) == secs * 1000

\* timestamp.minute() and timestamp.second()
MinuteOf(ms) == (ms \div 60000) % 60

SecondOf(ms) == (ms \div 1000) % 60

\* start_time without with_second(0)
BlockStartTimeKeepSeconds(ms, division) ==
    LET minutes_per_block == 60 \div division
        floored == (MinuteOf(ms) \div minutes_per_block) * minutes_per_block
    IN  ms - (MinuteOf(ms) - floored) * 60000

\* start_time: with_minute(minute / minutes_per_block * minutes_per_block)
\* and with_second(0); the fraction of the second stays
BlockStartTime(ms, division) ==
    LET minutes_per_block == 60 \div division
        floored == (MinuteOf(ms) \div minutes_per_block) * minutes_per_block
    IN  ms - (MinuteOf(ms) - floored) * 60000 - SecondOf(ms) * 1000

\* stop_time a quarter of an hour after start_time, whatever the division
BlockStopTimeQuarterHour(start_time, division) == start_time + 15 * 60000

\* stop_time = start_time + Duration::minutes(minutes_per_block)
BlockStopTime(start_time, division) == start_time + (60 \div division) * 60000

\* is_private_browsing without to_lowercase
IsPrivateBrowsingCaseSensitive(window_title) ==
    IF IsSome(window_title)
    THEN \/ Contains(Unwrap(window_title), StrPrivate)
         \/ Contains(Unwrap(window_title), StrIncognito)
    ELSE FALSE

\* is_private_browsing
IsPrivateBrowsing(window_title) ==
    IF IsSome(window_title)
    THEN \/ Contains(ToLowercase(Unwrap(window_title)), StrPrivate)
         \/ Contains(ToLowercase(Unwrap(window_title)), StrIncognito)
    ELSE FALSE

\* register_to_toggl passes true for should_skip_private
ShouldSkipPrivate == TRUE

\* the gate with > for >=
PassesGateStrict(confidence) == confidence > GateConfidence

\* analyze_and_register: if analysis_result.confidence >= 0.5
PassesGate(confidence) == confidence >= GateConfidence

\* register_to_toggl_impl: if analysis.base.confidence < 0.5 { return Ok(()) }
LowConfidence(confidence) == confidence < ImplConfidence

\* same_project without the (None, None) arm
SameProjectSomeOnly(p1, p2) ==
    IF IsSome(p1) /\ IsSome(p2) THEN Unwrap(p1) = Unwrap(p2) ELSE FALSE

\* same_project: both Some and equal, or both None
SameProject(p1, p2) ==
    IF IsSome(p1) /\ IsSome(p2) THEN Unwrap(p1) = Unwrap(p2)
    ELSE p1 = None /\ p2 = None

\* activities_match: equal names, or, with an OpenAI key, a similarity the
\* service returned that is at least the threshold (an error counts as no match)
ActivitiesMatch(current, previous, openai, reply) ==
    IF current = previous THEN TRUE
    ELSE IF openai THEN IsSome(reply) /\ Unwrap(reply) >= SimilarityThreshold
    ELSE FALSE

\* secs_diff, with start_time cut to the whole second
SecsDiff(start_time, last_stop) ==
    ((start_time - (start_time % 1000)) - ParseFromRfc3339(last_stop)) \div 1000

\* the adjacency test with < for <=
WithinAdjacencyStrict(start_time, last_stop) ==
    Abs(SecsDiff(start_time, last_stop)) < AdjacencySecs

\* if secs_diff.abs() <= 1800
WithinAdjacency(start_time, last_stop) ==
    Abs(SecsDiff(start_time, last_stop)) <= AdjacencySecs

\* The entries get_time_entries(one_hour_ago, start_time) returns, as ids:
\* those that start in the range, oldest first (the order the loop's .rev()
\* relies on); whether one starting exactly at end_date is included is the
\* service's choice.
ListEntries(entries, start_date, end_date, end_inclusive) ==
    SelectSeq([i \in 1..Len(entries) |-> i],
              LAMBDA i : /\ start_date <= entries[i].start
                         /\ \/ entries[i].start < end_date
                            \/ end_inclusive /\ entries[i].start = end_date)

\* The loop without .rev(): the first such entry from the start of the listing
RECURSIVE MergeCandidateOldestFirst(_, _, _, _, _, _, _, _)
MergeCandidateOldestFirst(entries, listing, k, activity, project_id, start_time, openai, replies) ==
    IF k = 0 THEN None
    ELSE LET at == Len(listing) - k + 1
             entry == entries[listing[at]]
         IN  IF /\ IsSome(entry.stop)
                /\ SameProject(project_id, entry.project_id)
                /\ ActivitiesMatch(activity, entry.description, openai, replies[listing[at]])
                /\ WithinAdjacency(start_time, Unwrap(entry.stop))
             THEN Some(listing[at])
             ELSE MergeCandidateOldestFirst(entries, listing, k - 1, activity,
                                            project_id, start_time, openai, replies)

\* for entry in entries.iter().rev(): the first entry, from the end of the
\* listing, that has a stop, the same project, a matching activity and a stop
\* within the adjacency window of start_time; None when the loop runs out.
RECURSIVE MergeCandidate(_, _, _, _, _, _, _, _)
MergeCandidate(entries, listing, k, activity, project_id, start_time, openai, replies) ==
    IF k = 0 THEN None
    ELSE LET entry == entries[listing[k]]
         IN  IF /\ IsSome(entry.stop)
                /\ SameProject(project_id, entry.project_id)
                /\ ActivitiesMatch(activity, entry.description, openai, replies[listing[k]])
                /\ WithinAdjacency(start_time, Unwrap(entry.stop))
             THEN Some(listing[k])
             ELSE MergeCandidate(entries, listing, k - 1, activity, project_id,
                                 start_time, openai, replies)

\* The PUT of {"stop": format_datetime_for_toggl(&stop_time)} on an entry.
UpdateStop(entries, id, stop_time) ==
    [entries EXCEPT ![id].stop = Some(FormatDatetimeForToggl(stop_time))]

\* The TimeEntry that create_time_entry posts, as the ledger stores it.
NewEntry(activity, project_id, start_time, stop_time) ==
    [description |-> activity,
     project_id |-> project_id,
     start |-> FormatDatetimeForToggl(start_time),
     stop |-> Some(FormatDatetimeForToggl(stop_time)),
     duration |-> (stop_time - start_time) \div 1000,
     created_with |-> "toggl_linux_rs"]

\* The record of a run that returns before it calls the ledger.
Skipped(stage) ==
    [stage |-> stage, project |-> None, entries_reply |-> "none", candidate |-> None,
     update |-> "none", create |-> "none", result |-> "Ok"]

\* The entry the loop over get_time_entries' answer settles on; an Err of
\* get_time_entries is logged and leaves nothing to merge with.
Candidate(entries, project_id, config, est, entries_reply, similarity) ==
    LET start_time == BlockStartTime(est.timestamp, config.time_block_division)
        one_hour_ago == start_time - LookbackSecs * 1000
    IN  IF entries_reply = "fail" THEN None
        ELSE LET listing == ListEntries(entries, FormatDatetimeForToggl(one_hour_ago),
                                        FormatDatetimeForToggl(start_time),
                                        entries_reply = "inclusive")
             IN  MergeCandidate(entries, listing, Len(listing), est.activity,
                                project_id, start_time, config.openai, similarity)

\* register_to_toggl_impl from infer_project_id on, with a failed update
\* returning the error instead of breaking out of the loop.
RegisterUpdateFatal(entries, project_id, est, start_time, stop_time, candidate, remote) ==
    LET run == [stage |-> "create", project |-> project_id,
                entries_reply |-> remote.entries, candidate |-> candidate,
                update |-> IF IsSome(candidate) THEN remote.update ELSE "none",
                create |-> "none", result |-> "Ok"]
    IN  IF ~remote.projects_ok
        THEN [run |-> [Skipped("projects") EXCEPT !.result = "Err"], entries |-> entries]
        ELSE IF IsSome(candidate) /\ remote.update = "ok"
        THEN [run |-> [run EXCEPT !.stage = "merged"],
              entries |-> UpdateStop(entries, Unwrap(candidate), stop_time)]
        ELSE IF IsSome(candidate)
        THEN [run |-> [run EXCEPT !.result = "Err"], entries |-> entries]
        ELSE IF remote.create_ok
        THEN [run |-> [run EXCEPT !.create = "ok"],
              entries |-> Append(entries, NewEntry(est.activity, project_id,
                                                   start_time, stop_time))]
        ELSE [run |-> [run EXCEPT !.create = "failed", !.result = "Err"],
              entries |-> entries]

\* register_to_toggl_impl going on without a project when get_projects fails
RegisterWithoutProjects(entries, project_id, est, start_time, stop_time, candidate, remote) ==
    LET run == [stage |-> IF remote.projects_ok THEN "create" ELSE "projects",
                project |-> project_id,
                entries_reply |-> remote.entries, candidate |-> candidate,
                update |-> IF IsSome(candidate) THEN remote.update ELSE "none",
                create |-> "none", result |-> "Ok"]
    IN  IF IsSome(candidate) /\ remote.update = "ok"
        THEN [run |-> [run EXCEPT !.stage = "merged"],
              entries |-> UpdateStop(entries, Unwrap(candidate), stop_time)]
        ELSE IF remote.create_ok
        THEN [run |-> [run EXCEPT !.create = "ok"],
              entries |-> Append(entries, NewEntry(est.activity, project_id,
                                                   start_time, stop_time))]
        ELSE [run |-> [run EXCEPT !.create = "failed", !.result = "Err"],
              entries |-> entries]

\* register_to_toggl_impl from infer_project_id on: an Err of get_projects is
\* returned; a candidate whose update succeeds ends the run; otherwise (no
\* candidate, or the update failed and the loop was left by break) the entry
\* is created, and an Err of create_time_entry is returned.
Register(entries, project_id, est, start_time, stop_time, candidate, remote) ==
    LET run == [stage |-> "create", project |-> project_id,
                entries_reply |-> remote.entries, candidate |-> candidate,
                update |-> IF IsSome(candidate) THEN remote.update ELSE "none",
                create |-> "none", result |-> "Ok"]
    IN  IF ~remote.projects_ok
        THEN [run |-> [Skipped("projects") EXCEPT !.result = "Err"], entries |-> entries]
        ELSE IF IsSome(candidate) /\ remote.update = "ok"
        THEN [run |-> [run EXCEPT !.stage = "merged"],
              entries |-> UpdateStop(entries, Unwrap(candidate), stop_time)]
        ELSE IF remote.create_ok
        THEN [run |-> [run EXCEPT !.create = "ok"],
              entries |-> Append(entries, NewEntry(est.activity, project_id,
                                                   start_time, stop_time))]
        ELSE [run |-> [run EXCEPT !.create = "failed", !.result = "Err"],
              entries |-> entries]

\* What one run of analyze_and_register on an estimate does, given what the
\* remote calls answer: the record of the run and the ledger afterwards.
\* project_id is what infer_project_id makes of the listed projects, private
\* the estimate's is_private_browsing, candidate the entry found to merge with.
Reconcile(entries, project_id, private, config, est, candidate, remote) ==
    LET start_time == BlockStartTime(est.timestamp, config.time_block_division)
        stop_time == BlockStopTime(start_time, config.time_block_division)
    IN  IF ~PassesGate(est.confidence)
        THEN [run |-> Skipped("below_gate"), entries |-> entries]
        ELSE IF ShouldSkipPrivate /\ private
        THEN [run |-> Skipped("private"), entries |-> entries]
        ELSE IF LowConfidence(est.confidence)
        THEN [run |-> Skipped("low_confidence"), entries |-> entries]
        ELSE Register(entries, project_id, est, start_time, stop_time, candidate, remote)

\* What the chat completion request of analyze_with_gpt comes to: an estimate,
\* an Err of client.chat().create, a response without a choice, or a content
\* that parse_gpt_response cannot turn into an estimate.
GptReplies == {"ok", "request_failed", "no_choice", "unparsable"}

\* analyze_and_register going on to analyze_locally when analyze_with_gpt fails
ClassificationWithFallback(openai, reply) ==
    IF openai
    THEN [backend |-> "gpt", requests |-> 1,
          local_calls |-> IF reply = "ok" THEN 0 ELSE 1,
          reply |-> reply, result |-> "Ok"]
    ELSE [backend |-> "local", requests |-> 0, local_calls |-> 1,
          reply |-> "none", result |-> "Ok"]

\* The match on config.openai.is_some(): analyze_with_gpt sends one request
\* and its Err leaves analyze_and_register through `?`; without the key
\* analyze_locally classifies.
Classification(openai, reply) ==
    IF openai
    THEN [backend |-> "gpt", requests |-> 1, local_calls |-> 0,
          reply |-> reply, result |-> IF reply = "ok" THEN "Ok" ELSE "Err"]
    ELSE [backend |-> "local", requests |-> 0, local_calls |-> 1,
          reply |-> "none", result |-> "Ok"]

NoClassification ==
    [backend |-> "none", requests |-> 0, local_calls |-> 0, reply |-> "none",
     result |-> "Ok"]

NoCycle ==
    [n |-> 0, timestamp |-> 0, activity |-> << >>, confidence |-> 0,
     window_title |-> None, classify |-> NoClassification,
     run |-> Skipped("none")]

(***************************************************************************)
(* The daemon: run_daemon.                                                 *)
(***************************************************************************)
\* let minutes_per_block = 60 / time_block_division as u64
MinutesPerBlock(division) == 60 \div division

\* 60 / time_block_division panics for 0 (division by zero); for a division
\* above 60 minutes_per_block is 0 and current_minute % minutes_per_block panics.
DivisionPanics(division) == division = 0 \/ 60 \div division = 0

\* The delay computed from the minute alone, without - now.second()
InitialDelayWholeMinutes(division, wall) ==
    (MinutesPerBlock(division) - (((wall \div 60) % 60) % MinutesPerBlock(division))) * 60

\* The delay to the first analysis run, from the wall-clock minute and second.
InitialDelay(division, wall) ==
    LET current_minute == (wall \div 60) % 60
        second == wall % 60
        minutes_to_next_block ==
            MinutesPerBlock(division) - (current_minute % MinutesPerBlock(division))
    IN  minutes_to_next_block * 60 - second

\* Duration::from_secs(minutes_per_block * 60)
AnalysisInterval(division) == MinutesPerBlock(division) * 60

\* Utc::now() at monotonic time t
Wall(t) == startup + t

\* Both arms of the match on collector.collect() go back to the select.
AfterCollectPropagate(result) == IF result = "Err" THEN "exited" ELSE "select"

AfterCollect(result) == "select"

\* get_recent_data: the rows with timestamp > now - 15 minutes, newest first
RecentData(rows, wall) ==
    LET keep == SelectSeq(rows, LAMBDA ts : ts > wall - RecentMinutes * 60)
    IN  [i \in 1..Len(keep) |-> keep[Len(keep) + 1 - i]]

\* The configurations the daemon is run with: the defaults of config.rs for
\* what the loop does not read.
Configs ==
    [collect_interval_secs : CollectIntervals,
     time_block_division : Divisions,
     google_calendar : BOOLEAN,
     confidence_threshold : {DefaultConfidenceThreshold},
     openai : {FALSE}]

Init ==
    /\ now = 0
    /\ startup \in StartupOffsets
    /\ cfg \in Configs
    /\ collect_timer = 0
    /\ analysis_timer = 0
    /\ collected_data_count = 0
    /\ pc = "startup"
    /\ analysis_began = 0
    /\ idle_start = None
    /\ total_idle_time = 0
    /\ block_start = 0
    /\ window_data = << >>
    /\ last_collect = NoCollect
    /\ projects = << >>
    /\ ledger = << >>
    /\ cycle = NoCycle
    /\ matching = NoCall
    /\ classified = NoCall

\* run_daemon up to the loop: init_storage and DataCollector::new may fail,
\* which ends the process; otherwise the two timers are armed.
Startup ==
    /\ pc = "startup"
    /\ \E storage_ok \in BOOLEAN :
        IF ~storage_ok
        THEN /\ pc' = "exited"
             /\ UNCHANGED << collect_timer, analysis_timer >>
        ELSE IF DivisionPanics(cfg.time_block_division)
        THEN /\ pc' = "panicked"
             /\ UNCHANGED << collect_timer, analysis_timer >>
        ELSE /\ pc' = "select"
             /\ collect_timer' = now
             /\ analysis_timer' = now + InitialDelay(cfg.time_block_division, Wall(now))
    /\ UNCHANGED << now, startup, cfg, collected_data_count, analysis_began, collectorVars >>
    /\ UNCHANGED reconcileVars
    /\ UNCHANGED callVars

\* The select loop sleeps until the earlier of the two deadlines.
Sleep ==
    /\ pc = "select"
    /\ now < Min2(collect_timer, analysis_timer)
    /\ Min2(collect_timer, analysis_timer) <= MaxTime
    /\ now' = Min2(collect_timer, analysis_timer)
    /\ UNCHANGED << startup, cfg, collect_timer, analysis_timer, collected_data_count,
                    pc, analysis_began, collectorVars >>
    /\ UNCHANGED reconcileVars
    /\ UNCHANGED callVars

\* The collect_timer arm: one sample tick, collector.collect() as a whole.
Collect ==
    /\ pc = "select"
    /\ now >= collect_timer
    /\ \E reading \in IdleReadings, window_ok \in BOOLEAN, calendar_ok \in BOOLEAN :
        LET tr == TrackerAfter(Tracker, reading, now)
            out == CollectOutcome(CurrentIdleTime(tr, now), window_ok,
                                  cfg.google_calendar, calendar_ok)
        IN  /\ idle_start' = tr.idle_start
            /\ total_idle_time' = tr.total_idle_time
            /\ block_start' = tr.block_start
            /\ window_data' = IF out.wrote THEN Append(window_data, Wall(now))
                              ELSE window_data
            /\ collected_data_count' = IF out.result = "Ok"
                                       THEN collected_data_count + 1
                                       ELSE collected_data_count
            /\ last_collect' =
                 [ticked |-> TRUE, reading |-> reading,
                  is_idle |-> IsIdleResult(reading),
                  result |-> out.result, stage |-> out.stage, wrote |-> out.wrote,
                  closed_span |-> reading.ok /\ ~OverThreshold(reading.ms)
                                   /\ IsSome(idle_start),
                  refreshed |-> reading.ok /\ RefreshDue(block_start, now)]
            /\ pc' = AfterCollect(out.result)
    /\ collect_timer' = collect_timer + cfg.collect_interval_secs
    /\ UNCHANGED << now, startup, cfg, analysis_timer, analysis_began >>
    /\ UNCHANGED reconcileVars
    /\ UNCHANGED callVars

\* The analysis_timer arm: nothing is analysed before the first Ok collect,
\* without an internet connection, or with no row of the last 15 minutes;
\* otherwise analyze_and_register is entered and awaited inside the arm.
AnalysisFire ==
    /\ pc = "select"
    /\ now >= analysis_timer
    /\ analysis_timer' = analysis_timer + AnalysisInterval(cfg.time_block_division)
    /\ \E internet \in BOOLEAN :
        IF collected_data_count > 0 /\ internet
           /\ Len(RecentData(window_data, Wall(now))) > 0
        THEN pc' = "analyze" /\ analysis_began' = now
        ELSE UNCHANGED << pc, analysis_began >>
    /\ UNCHANGED << now, startup, cfg, collect_timer, collected_data_count, collectorVars >>
    /\ UNCHANGED reconcileVars
    /\ UNCHANGED callVars

\* Time passing while analyze_and_register awaits a remote call.
Await ==
    /\ pc = "analyze"
    /\ LET next == (now \div cfg.collect_interval_secs + 1) * cfg.collect_interval_secs
       IN  next <= MaxTime /\ now' = next
    /\ UNCHANGED << startup, cfg, collect_timer, analysis_timer, collected_data_count,
                    pc, analysis_began, collectorVars >>
    /\ UNCHANGED reconcileVars
    /\ UNCHANGED callVars

\* analyze_and_register returns (Ok or Err, both logged) and the loop selects again.
AnalysisReturn ==
    /\ pc = "analyze"
    /\ pc' = "select"
    /\ analysis_began' = 0
    /\ UNCHANGED << now, startup, cfg, collect_timer, analysis_timer, collected_data_count,
                    collectorVars >>
    /\ UNCHANGED reconcileVars
    /\ UNCHANGED callVars

Next == Startup \/ Sleep \/ Collect \/ AnalysisFire \/ Await \/ AnalysisReturn

Spec == Init /\ [][Next]_vars

(***************************************************************************)
(* The daemon over every startup time of the hour and every division       *)
(* (specification SpecSchedule): the same loop, with a long sample         *)
(* interval and no calendar.                                               *)
(***************************************************************************)
\* The divisions that divide 60
ValidDivisions == {d \in 1..60 : 60 % d = 0}

\* time_block_division is a u8 that load_config takes as it is parsed
ScheduleDivisions == ValidDivisions \cup {0, 7, 61}

\* Utc::now() at startup: every minute of the hour, seconds 0, 1 and 59
ScheduleStartups == {m * 60 + sec : m \in 0..59, sec \in {0, 1, 59}}


ScheduleConfigs ==
    \* collect_interval_secs of a quarter of an hour: two sample ticks in the run
    [collect_interval_secs : {900},
     time_block_division : ScheduleDivisions,
     google_calendar : {FALSE},
     confidence_threshold : {DefaultConfidenceThreshold},
     openai : {FALSE}]

InitSchedule ==
    /\ now = 0
    /\ startup \in ScheduleStartups
    /\ cfg \in ScheduleConfigs
    /\ collect_timer = 0
    /\ analysis_timer = 0
    /\ collected_data_count = 0
    /\ pc = "startup"
    /\ analysis_began = 0
    /\ idle_start = None
    /\ total_idle_time = 0
    /\ block_start = 0
    /\ window_data = << >>
    /\ last_collect = NoCollect
    /\ projects = << >>
    /\ ledger = << >>
    /\ cycle = NoCycle
    /\ matching = NoCall
    /\ classified = NoCall

SpecSchedule == InitSchedule /\ [][Next]_vars

(***************************************************************************)
(* Repeated runs of analyze_and_register against the ledger                *)
(* (specification SpecReconcile).                                          *)
(***************************************************************************)
\* Bounds of the runs.
MaxCycles == 2

MaxBlock == 4

\* The estimates the classifier hands over.
Activities == {StrMail, StrWritingReport}

Confidences == {49, 50, 60}

\* Timestamps in milliseconds: 5 minutes 7.5 seconds into a block of division 4
EstimateTimes == {b * 900000 + 307500 : b \in 0..MaxBlock}

WindowTitles == {None, Some(StrTitlePrivate), Some(StrTitleIncognito)}

Estimates ==
    [activity : Activities, confidence : Confidences, timestamp : EstimateTimes,
     window_title : WindowTitles, calendar_event : {None}]

\* general.confidence_threshold values of the configuration file, in hundredths
ConfidenceThresholds == {DefaultConfidenceThreshold, 70}

ReconcileConfigs ==
    [collect_interval_secs : {DefaultCollectInterval},
     time_block_division : Divisions,
     google_calendar : {FALSE},
     confidence_threshold : ConfidenceThresholds,
     openai : BOOLEAN]

\* What get_projects lists: no project, or two
ProjectListings ==
    {<< >>, << [id |-> 1, name |-> StrReport], [id |-> 2, name |-> StrWriting] >>}

\* What the ledger holds when the daemon starts: nothing, an entry an earlier
\* run of the program made for the block at 0, an entry that is running, or
\* the entry an earlier run made for the first hour under time_block_division 1.
InitialLedgers ==
    {<< >>,
     << NewEntry(StrMail, None, 0, 900000) >>,
     << [NewEntry(StrMail, None, 0, 900000) EXCEPT !.stop = None] >>,
     << NewEntry(StrMail, None, 0, 3600000) >>}

\* evaluate_activity_similarity: an error, or a similarity in hundredths
SimilarityReplies == {None, Some(SimilarityThreshold - 1), Some(SimilarityThreshold)}

\* A run that returns before infer_project_id calls nothing.
AsksRemote(confidence, private) ==
    /\ PassesGate(confidence)
    /\ ~(ShouldSkipPrivate /\ private)
    /\ ~LowConfidence(confidence)

\* What get_projects, get_time_entries and the similarity calls answer; the
\* last two are made once get_projects has answered, the similarity call
\* only with an OpenAI key.
LookupReplies(n, asks, openai) ==
    [projects_ok : IF asks THEN BOOLEAN ELSE {TRUE},
     entries : IF asks THEN {"fail", "exclusive", "inclusive"} ELSE {"fail"},
     similarity : IF asks /\ openai THEN [1..n -> SimilarityReplies]
                  ELSE {[i \in 1..n |-> None]}]

\* The similarity call is made for a listed entry that has a stop, the same
\* project and another description.
SimilarityCalled(entry, project_id, activity) ==
    /\ IsSome(entry.stop)
    /\ SameProject(project_id, entry.project_id)
    /\ activity # entry.description

\* A call that is not made answers nothing.
LookupMade(lookup, entries, project_id, activity) ==
    /\ ~lookup.projects_ok => lookup.entries = "fail"
    /\ \A i \in DOMAIN lookup.similarity :
          IsSome(lookup.similarity[i]) =>
              /\ lookup.entries # "fail"
              /\ SimilarityCalled(entries[i], project_id, activity)

\* What the update answers: sent only for a candidate.
UpdateReplies(asks, candidate) ==
    IF asks /\ IsSome(candidate) THEN {"ok", "status", "transport"} ELSE {"none"}

\* Whether create_time_entry succeeds: called unless the run merged.
CreateReplies(asks, update) ==
    IF asks /\ update # "ok" THEN BOOLEAN ELSE {TRUE}

InitReconcile ==
    /\ now = 0
    /\ startup = 0
    /\ cfg \in ReconcileConfigs
    /\ collect_timer = 0
    /\ analysis_timer = 0
    /\ collected_data_count = 0
    /\ pc = "analyze"
    /\ analysis_began = 0
    /\ idle_start = None
    /\ total_idle_time = 0
    /\ block_start = 0
    /\ window_data = << >>
    /\ last_collect = NoCollect
    /\ projects \in ProjectListings
    /\ ledger \in InitialLedgers
    /\ cycle = NoCycle
    /\ matching = NoCall
    /\ classified = NoCall

\* One run of analyze_and_register on the estimate of the newest samples;
\* the estimates' timestamps do not go back in time.
AnalyzeAndRegister ==
    /\ cycle.n < MaxCycles
    /\ \E reply \in (IF cfg.openai THEN GptReplies ELSE {"none"}) :
       \E class \in {Classification(cfg.openai, reply)} :
       IF class.result = "Err"
       THEN /\ ledger' = ledger
            /\ cycle' = [NoCycle EXCEPT !.n = cycle.n + 1,
                                        !.timestamp = cycle.timestamp,
                                        !.classify = class]
       ELSE
        \E est \in Estimates :
        /\ est.timestamp >= cycle.timestamp
        /\ \E private \in {IsPrivateBrowsing(est.window_title)},
              project_id \in {InferProjectId(projects, est)} :
           \E asks \in {AsksRemote(est.confidence, private)} :
           \E lookup \in LookupReplies(Len(ledger), asks, cfg.openai) :
           /\ LookupMade(lookup, ledger, project_id, est.activity)
           /\ \E candidate \in {IF lookup.projects_ok
                                THEN Candidate(ledger, project_id, cfg, est,
                                               lookup.entries, lookup.similarity)
                                ELSE None} :
              \E update \in UpdateReplies(asks, candidate) :
              \E create_ok \in CreateReplies(asks /\ lookup.projects_ok, update) :
              \E out \in {Reconcile(ledger, project_id, private, cfg, est, candidate,
                                    [projects_ok |-> lookup.projects_ok,
                                     entries |-> lookup.entries,
                                     update |-> update, create_ok |-> create_ok])} :
                  /\ ledger' = out.entries
                  /\ cycle' = [n |-> cycle.n + 1, timestamp |-> est.timestamp,
                               activity |-> est.activity,
                               confidence |-> est.confidence,
                               window_title |-> est.window_title,
                               classify |-> class,
                               run |-> out.run]
    /\ UNCHANGED << projects, daemonVars, collectorVars, callVars >>

NextReconcile == AnalyzeAndRegister

SpecReconcile == InitReconcile /\ [][NextReconcile]_vars

(***************************************************************************)
(* register_to_toggl's block arithmetic over the hour, for every division  *)
(* that divides 60 (specification SpecBlocks).                             *)
(***************************************************************************)
\* The estimates' timestamps range over the minutes 0..MaxMinute.
MaxMinute == 119

\* Timestamps in milliseconds: every minute, its first and last second, with
\* and without a fraction of a second
BlockTimes ==
    {(m * 60 + sec) * 1000 + f : m \in 0..MaxMinute, sec \in {0, 59}, f \in {0, 500}}

BlockConfigs ==
    [collect_interval_secs : {DefaultCollectInterval},
     time_block_division : ValidDivisions,
     google_calendar : {FALSE},
     confidence_threshold : {DefaultConfidenceThreshold},
     openai : {FALSE}]

InitBlocks ==
    /\ now = 0
    /\ startup = 0
    /\ cfg \in BlockConfigs
    /\ collect_timer = 0
    /\ analysis_timer = 0
    /\ collected_data_count = 0
    /\ pc = "analyze"
    /\ analysis_began = 0
    /\ idle_start = None
    /\ total_idle_time = 0
    /\ block_start = 0
    /\ window_data = << >>
    /\ last_collect = NoCollect
    /\ projects = << >>
    /\ ledger = << >>
    /\ cycle = NoCycle
    /\ matching = NoCall
    /\ classified = NoCall

\* register_to_toggl on an estimate that passes the gate, against an empty
\* ledger: the listings succeed and create_time_entry succeeds or fails.
RegisterBlock ==
    /\ cycle.n = 0
    /\ \E t \in BlockTimes, create_ok \in BOOLEAN :
       \E est \in {[activity |-> StrMail, confidence |-> 60, timestamp |-> t,
                    window_title |-> None, calendar_event |-> None]} :
       \E project_id \in {InferProjectId(projects, est)} :
       \E candidate \in {Candidate(ledger, project_id, cfg, est, "exclusive",
                                   << >>)} :
       \E out \in {Reconcile(ledger, project_id, FALSE, cfg, est, candidate,
                             [projects_ok |-> TRUE, entries |-> "exclusive",
                              update |-> "none", create_ok |-> create_ok])} :
           /\ ledger' = out.entries
           /\ cycle' = [n |-> 1, timestamp |-> t, activity |-> est.activity,
                        confidence |-> est.confidence,
                        window_title |-> est.window_title,
                        classify |-> Classification(cfg.openai, "none"),
                        run |-> out.run]
    /\ UNCHANGED << projects, daemonVars, collectorVars, callVars >>

NextBlocks == RegisterBlock

SpecBlocks == InitBlocks /\ [][NextBlocks]_vars

(***************************************************************************)
(* Single calls of infer_project_id on listings of up to MaxProjects        *)
(* projects (specification SpecMatch).                                     *)
(***************************************************************************)
\* The longest project listing
MaxProjects == 3

\* The workspace's projects; a project's id is 10 plus its place here
MatchNames == << StrReport, StrWriting, StrDraft, StrReportWriting, StrWeeklyReport >>

MatchProjects == {[id |-> 10 + i, name |-> MatchNames[i]] : i \in 1..Len(MatchNames)}

\* get_projects' answers: up to MaxProjects different projects in any order
MatchListings ==
    {l \in UNION {[1..n -> MatchProjects] : n \in 0..MaxProjects} :
        \A i, j \in DOMAIN l : i # j => l[i] # l[j]}

\* The estimates' activity, window_title and calendar_event.title
MatchLabels == {StrMail, StrWritingReport, StrUpperReport}

MatchWindowTitles == {None, Some(StrTitleReport)}

MatchCalendarTitles == {None, Some(StrTitleReport), Some(StrWriting)}

InitMatch ==
    /\ now = 0
    /\ startup = 0
    /\ cfg \in BlockConfigs
    /\ cfg.time_block_division = 4
    /\ collect_timer = 0
    /\ analysis_timer = 0
    /\ collected_data_count = 0
    /\ pc = "analyze"
    /\ analysis_began = 0
    /\ idle_start = None
    /\ total_idle_time = 0
    /\ block_start = 0
    /\ window_data = << >>
    /\ last_collect = NoCollect
    /\ projects \in MatchListings
    /\ ledger = << >>
    /\ cycle = NoCycle
    /\ matching \in [done : {FALSE}, activity : MatchLabels,
                     window_title : MatchWindowTitles,
                     calendar_event : MatchCalendarTitles]
    /\ classified = NoCall

\* infer_project_id: an Err of get_projects is returned; otherwise every
\* listed project is scored and the best candidate is returned or none.
InferProject ==
    /\ ~matching.done
    /\ \E projects_ok \in BOOLEAN :
        matching' =
          IF projects_ok
          THEN [done |-> TRUE, activity |-> matching.activity,
                window_title |-> matching.window_title,
                calendar_event |-> matching.calendar_event,
                base |-> [i \in 1..Len(projects) |->
                            BaseScore(ToLowercase(projects[i].name),
                                      ToLowercase(matching.activity))],
                score |-> [i \in 1..Len(projects) |->
                            ProjectScore(projects[i], matching)],
                result |-> "Ok",
                project_id |-> InferProjectId(projects, matching)]
          ELSE [done |-> TRUE, activity |-> matching.activity,
                window_title |-> matching.window_title,
                calendar_event |-> matching.calendar_event,
                base |-> << >>, score |-> << >>,
                result |-> "Err", project_id |-> None]
    /\ UNCHANGED << daemonVars, collectorVars, reconcileVars, classified >>

NextMatch == InferProject

SpecMatch == InitMatch /\ [][NextMatch]_vars

(***************************************************************************)
(* Single calls of the classifiers: analyze_locally run MaxRuns times on   *)
(* the same samples, analyze_with_gpt on one response (specification       *)
(* SpecClassify).                                                          *)
(***************************************************************************)
\* The most samples in a call, the runs on the same samples, and the most
\* entries of a response's alternatives
MaxSamples == 3

MaxRuns == 2

MaxEntries == 2

\* The samples' window titles, newest first
SampleTitles == {StrFirefoxGmail, StrChromeMail, StrTerminal, StrUpperTerminal}

SampleSequences == UNION {[1..n -> SampleTitles] : n \in 0..MaxSamples}

\* The entries of "alternatives" in a response: complete ones (one with the
\* primary label), one without confidence, one whose activity is a number,
\* and one that is not an object
ResponseEntries ==
    {JObj(JStr(LabelTerminal), JNum(20), JAbsent),
     JObj(JStr(LabelMail), JNum(10), JAbsent),
     JObj(JStr(LabelWeb), JAbsent, JAbsent),
     JObj(JNum(1), JNum(30), JAbsent),
     JStr(LabelOther)}

ResponseValues ==
    {JObj(activity, confidence, alternatives) :
        activity \in {JAbsent, JStr(LabelMail), JNum(1)},
        confidence \in {JAbsent, JNum(80), JStr("high")},
        alternatives \in {JAbsent, JStr("none")}
            \cup {JArr(a) : a \in UNION {[1..n -> ResponseEntries] : n \in 0..MaxEntries}}}
    \cup {JArr(<< >>), JNull}

\* What the chat completion request comes to
GptResponses ==
    {[sent |-> FALSE, choices |-> << >>], [sent |-> TRUE, choices |-> << >>],
     [sent |-> TRUE, choices |-> << None >>],
     [sent |-> TRUE, choices |-> << Some(NotJson) >>]}
    \cup {[sent |-> TRUE, choices |-> << Some([json |-> TRUE, value |-> v]) >>] :
             v \in ResponseValues}

InitClassify ==
    /\ now = 0
    /\ startup = 0
    /\ cfg \in BlockConfigs
    /\ cfg.time_block_division = 4
    /\ collect_timer = 0
    /\ analysis_timer = 0
    /\ collected_data_count = 0
    /\ pc = "analyze"
    /\ analysis_began = 0
    /\ idle_start = None
    /\ total_idle_time = 0
    /\ block_start = 0
    /\ window_data = << >>
    /\ last_collect = NoCollect
    /\ projects = << >>
    /\ ledger = << >>
    /\ cycle = NoCycle
    /\ matching = NoCall
    /\ classified \in
         [done : {FALSE}, backend : {"local"}, data : SampleSequences, runs : {<< >>}]
         \cup [done : {FALSE}, backend : {"gpt"}, data : {<< StrFirefoxGmail >>},
               reply : GptResponses, runs : {<< >>}]

\* One call of analyze_locally; the HashMap of the call iterates in some order.
RunAnalyzeLocally ==
    /\ classified.backend = "local"
    /\ Len(classified.runs) < MaxRuns
    /\ \E order \in IterationOrders(TitleKeys(classified.data)) :
        classified' = [classified EXCEPT
                         !.done = TRUE,
                         !.runs = Append(@, AnalyzeLocally(classified.data, order))]
    /\ UNCHANGED << daemonVars, collectorVars, reconcileVars, matching >>

\* One call of analyze_with_gpt.
RunAnalyzeWithGpt ==
    /\ classified.backend = "gpt"
    /\ classified.runs = << >>
    /\ classified' = [classified EXCEPT
                        !.done = TRUE,
                        !.runs = << AnalyzeWithGpt(classified.reply, classified.data) >>]
    /\ UNCHANGED << daemonVars, collectorVars, reconcileVars, matching >>

NextClassify == RunAnalyzeLocally \/ RunAnalyzeWithGpt

SpecClassify == InitClassify /\ [][NextClassify]_vars

(***************************************************************************)
(* Properties of the daemon and the collector (specification Spec).        *)
(***************************************************************************)
\* A step that services one sample tick.
CollectStep == collect_timer' # collect_timer

\* C1: while an analysis run is in progress, no sample tick that fell due
\* after the run began is left unserviced once its deadline has passed.
C1_SampleTimerServicedDuringAnalysis ==
    pc = "analyze" => ~(analysis_began < collect_timer /\ collect_timer < now)

C9_NotIdleAtOrBelowThreshold ==
    [][(CollectStep /\ last_collect'.reading.ok
          /\ last_collect'.reading.ms <= 300 * 1000) =>
        /\ last_collect'.is_idle = FALSE
        /\ idle_start' = None
        /\ total_idle_time' =
             IF now - block_start >= 900 THEN 0
             ELSE IF idle_start # None
                  THEN total_idle_time + (now - idle_start[1])
                  ELSE total_idle_time]_vars

\* A reading at the threshold ended an idle span, outside a refresh.
C9_Witness ==
    /\ last_collect.ticked
    /\ last_collect.reading.ok
    /\ last_collect.reading.ms = 300 * 1000
    /\ last_collect.closed_span
    /\ ~last_collect.refreshed
    /\ total_idle_time > 0

\* C10: a tick whose idle reading failed reports not idle; collect returns an
\* error on it only for a failed window or calendar probe; and the loop is
\* still running.
C10_IdleReadFailureFailsOpen ==
    (last_collect.ticked /\ ~last_collect.reading.ok) =>
        /\ last_collect.is_idle = FALSE
        /\ last_collect.result = "Err" => last_collect.stage \in {"window", "calendar"}
        /\ pc \in {"select", "analyze"}

\* A tick whose idle reading failed wrote its sample.
C10_Witness ==
    /\ last_collect.ticked
    /\ ~last_collect.reading.ok
    /\ last_collect.wrote
    /\ last_collect.result = "Ok"


(***************************************************************************)
(* Properties of the reconciler (specification SpecReconcile).             *)
(***************************************************************************)
\* A step of AnalyzeAndRegister that got an estimate from the classifier
Ran == cycle'.n = cycle.n + 1 /\ cycle'.classify.result = "Ok"

\* The run got as far as the ledger lookup and the merge-or-create decision.
Registered(c) == c.run.stage \in {"merged", "create"}

\* The block of the estimate just reconciled, in seconds
BlockSecs == 3600 \div cfg.time_block_division

NewStart == ((cycle'.timestamp \div 1000) \div BlockSecs) * BlockSecs

NewStop == NewStart + BlockSecs

\* What the lookback query of the run just made returned
Listed ==
    IF cycle'.run.entries_reply \in {"exclusive", "inclusive"}
    THEN ListEntries(ledger, NewStart - 3600, NewStart,
                     cycle'.run.entries_reply = "inclusive")
    ELSE << >>

\* Entry i has a stop within 30 minutes of the new block's start.
StopAdjacent(i) ==
    /\ ledger[i].stop # None
    /\ ledger[i].stop[1] - NewStart <= 1800
    /\ NewStart - ledger[i].stop[1] <= 1800

\* Entry i is eligible by the identical description.
Eligible(i) ==
    /\ StopAdjacent(i)
    /\ ledger[i].project_id = cycle'.run.project
    /\ ledger[i].description = cycle'.activity

\* The entry the previous run wrote, if it wrote one.
FirstEntry ==
    IF cycle.run.stage = "merged" THEN cycle.run.candidate
    ELSE IF cycle.run.create = "ok" THEN Some(Len(ledger))
    ELSE None

UpdateFailed(c) == c.run.update \in {"status", "transport"}

SuccessiveEqualEstimates ==
    /\ Ran
    /\ Registered(cycle) /\ Registered(cycle')
    /\ cycle'.activity = cycle.activity
    /\ cycle.run.project = None /\ cycle'.run.project = None
    /\ FirstEntry # None
    /\ StopAdjacent(FirstEntry[1])

SingleEntrySpansBoth ==
    /\ Len(ledger') = Len(ledger)
    /\ ledger' = [ledger EXCEPT ![FirstEntry[1]].stop = Some(NewStop)]

C3_EligibleEntryExtended ==
    [][(/\ Ran
        /\ Registered(cycle')
        /\ \E k \in 1..Len(Listed) : Eligible(Listed[k])
        /\ ~UpdateFailed(cycle'))
       => LET last == CHOOSE k \in 1..Len(Listed) :
                        /\ Eligible(Listed[k])
                        /\ \A j \in (k + 1)..Len(Listed) : ~Eligible(Listed[j])
          IN  /\ cycle'.run.create = "none"
              /\ cycle'.run.update = "ok"
              /\ \E k \in last..Len(Listed) :
                    /\ cycle'.run.candidate = Some(Listed[k])
                    /\ k > last => cfg.openai
                    /\ StopAdjacent(Listed[k])
                    /\ ledger[Listed[k]].project_id = cycle'.run.project
                    /\ ledger' = [ledger EXCEPT ![Listed[k]].stop = Some(NewStop)]]_vars

\* A run found two entries in the ledger and extended the older one, whose
\* stop lay exactly 30 minutes before the new block's start.
C3_Witness ==
    /\ cycle.run.stage = "merged"
    /\ cycle.run.candidate = Some(1)
    /\ Len(ledger) = 2
    /\ ledger[1].stop = Some(((cycle.timestamp \div 1000) \div 900) * 900 + 900)
    /\ ledger[1].stop[1] - ledger[1].start = 3600

\* C4: when the update of a merge attempt fails (the request fails, or the
\* status is not a success), the run goes on to create_time_entry, and it
\* returns an error only if that call fails; when it succeeds the new block's
\* entry is appended and the run returns Ok.
C4_FailedUpdateFallsBackToCreate ==
    [][(Ran /\ UpdateFailed(cycle'))
       => /\ cycle'.run.create \in {"ok", "failed"}
          /\ cycle'.run.result = "Err" <=> cycle'.run.create = "failed"
          /\ cycle'.run.create = "ok" =>
                /\ Len(ledger') = Len(ledger) + 1
                /\ SubSeq(ledger', 1, Len(ledger)) = ledger
                /\ ledger'[Len(ledger')].description = cycle'.activity
                /\ ledger'[Len(ledger')].start = NewStart
                /\ ledger'[Len(ledger')].stop = Some(NewStop)
          /\ cycle'.run.create = "failed" => ledger' = ledger]_vars

C4_Witness ==
    /\ cycle.run.update = "status"
    /\ cycle.run.create = "ok"
    /\ cycle.run.result = "Ok"
    /\ Len(ledger) = 2

\* The title contains "private" or "incognito", whatever the case.
HasPrivateMarker(title) ==
    /\ title # None
    /\ \/ Contains(ToLowercase(title[1]), StrPrivate)
       \/ Contains(ToLowercase(title[1]), StrIncognito)

\* C5: for an estimate whose window title contains "private" or "incognito"
\* in any case, with the skip policy on, the run sends no update and no
\* create and leaves the ledger as it is.
C5_PrivateTitleWritesNothing ==
    [][(Ran /\ ShouldSkipPrivate /\ HasPrivateMarker(cycle'.window_title))
       => /\ ledger' = ledger
          /\ cycle'.run.update = "none"
          /\ cycle'.run.create = "none"
          /\ cycle'.run.result = "Ok"]_vars

C5_Witness ==
    /\ cycle.window_title = Some(StrTitleIncognito)
    /\ cycle.confidence > GateConfidence
    /\ cycle.run.stage = "private"
    /\ Len(ledger) = 1

\* C6: against the gate's threshold of 0.5, an estimate with exactly that
\* confidence (and no private title) goes on to the ledger and, unless a
\* remote call fails, writes it (an update or a create succeeds); one with a
\* smaller confidence sends nothing and leaves the ledger as it is.
C6_GateInclusive ==
    [][Ran =>
        /\ (cycle'.confidence = GateConfidence /\ cycle'.window_title = None)
             => /\ cycle'.run.stage \in {"projects", "merged", "create"}
                /\ cycle'.run.result = "Ok"
                     => (cycle'.run.update = "ok" \/ cycle'.run.create = "ok")
        /\ cycle'.confidence < GateConfidence
             => /\ ledger' = ledger
                /\ cycle'.run.stage = "below_gate"
                /\ cycle'.run.update = "none"
                /\ cycle'.run.create = "none"]_vars

C6_Witness ==
    /\ cycle.confidence = GateConfidence
    /\ cycle.run.create = "ok"
    /\ cycle.n = 1
    /\ Len(ledger) = 1

\* C7: an estimate (without a private title) goes on to the ledger exactly
\* when its confidence is at least the configured confidence_threshold.
C7_GateUsesConfiguredThreshold ==
    (cycle.n > 0 /\ cycle.window_title = None)
        => (cycle.run.stage \in {"projects", "merged", "create"}
              <=> cycle.confidence >= cfg.confidence_threshold)

(***************************************************************************)
(* Properties of the analysis schedule (specification SpecSchedule).       *)
(***************************************************************************)
\* The block length in seconds
BlockLength == (60 \div cfg.time_block_division) * 60

\* The wall-clock time (seconds from the start of an hour) has a minute that
\* is a multiple of 60/division, and second 0.
OnBlockBoundary(wall) ==
    /\ ((wall \div 60) % 60) % (60 \div cfg.time_block_division) = 0
    /\ wall % 60 = 0

\* C11: for a division that divides 60 and any startup minute and second, the
\* first deadline of the analysis timer is more than 0 and at most one block
\* after startup and on a block boundary of the wall clock; every deadline the
\* timer fires for is on a block boundary and the next one is one block later
\* (for division 4: at minute 0, 15, 30 or 45).
C11_AnalysisOnBlockBoundaries ==
    [][cfg.time_block_division \in ValidDivisions =>
        /\ (pc = "startup" /\ pc' = "select")
             => /\ analysis_timer' - now > 0
                /\ analysis_timer' - now <= BlockLength
                /\ OnBlockBoundary(startup + analysis_timer')
        /\ (pc = "select" /\ analysis_timer' # analysis_timer)
             => /\ now >= analysis_timer
                /\ OnBlockBoundary(startup + analysis_timer)
                /\ analysis_timer' = analysis_timer + BlockLength
                /\ cfg.time_block_division = 4
                     => (((startup + analysis_timer) \div 60) % 60) \in {0, 15, 30, 45}]_vars

\* Started at minute 14, second 59 with division 4: the first analysis was due
\* one second later and has fired.
C11_Witness ==
    /\ cfg.time_block_division = 4
    /\ startup = 14 * 60 + 59
    /\ analysis_timer = 1 + 900
    /\ pc = "analyze"

\* C12: with a time_block_division that does not divide 60 the daemon never
\* gets to its loop: no timer is set and no sample is written.
C12_NonDividingDivisionRejected ==
    cfg.time_block_division \notin ValidDivisions
        => /\ pc \notin {"select", "analyze"}
           /\ window_data = << >>
           /\ analysis_timer = 0

(***************************************************************************)
(* Properties of the block arithmetic (specification SpecBlocks).          *)
(***************************************************************************)
\* C13: every entry the program creates carries a duration equal to its stop
\* minus its start in seconds, and that is exactly one block length.
C13_CreatedEntrySpansOneBlock ==
    [][cycle'.run.create = "ok" =>
        /\ Len(ledger') = Len(ledger) + 1
        /\ LET entry == ledger'[Len(ledger')]
           IN  /\ IsSome(entry.stop)
               /\ entry.duration = Unwrap(entry.stop) - entry.start
               /\ entry.duration = (60 \div cfg.time_block_division) * 60]_vars

\* Division 12, an estimate in the last half second of the first hour: the
\* entry created runs from minute 55 for 300 seconds.
C13_Witness ==
    /\ cfg.time_block_division = 12
    /\ cycle.timestamp = (59 * 60 + 59) * 1000 + 500
    /\ cycle.run.create = "ok"
    /\ Len(ledger) = 1
    /\ ledger[1].start = 55 * 60
    /\ ledger[1].duration = 300

\* C20: for every estimate timestamp t and division that divides 60, the start
\* of the block has a minute that is a multiple of 60/division and second 0,
\* start <= t < stop, and stop is start plus one block length; the entry
\* created carries that start and stop.
C20_BlockContainsTimestamp ==
    cycle.n > 0 =>
        LET division == cfg.time_block_division
            t == cycle.timestamp
            start == BlockStartTime(t, division)
            stop == BlockStopTime(start, division)
        IN  /\ MinuteOf(start) % (60 \div division) = 0
            /\ SecondOf(start) = 0
            /\ start <= t
            /\ t < stop
            /\ stop = start + (60 \div division) * 60000
            /\ cycle.run.create = "ok" =>
                  /\ ledger[Len(ledger)].start * 1000 <= t
                  /\ t < Unwrap(ledger[Len(ledger)].stop) * 1000
                  /\ ledger[Len(ledger)].start % ((60 \div division) * 60) = 0

\* Division 3, an estimate at minute 19, second 59 of the second hour: the
\* block is the one that starts with that hour.
C20_Witness ==
    /\ cfg.time_block_division = 3
    /\ cycle.timestamp = (79 * 60 + 59) * 1000 + 500
    /\ cycle.run.create = "ok"
    /\ ledger[1].start = 3600
    /\ ledger[1].stop = Some(3600 + 1200)

(***************************************************************************)
(* Properties of the classification stage (specification SpecReconcile).   *)
(***************************************************************************)
\* C14: with the OpenAI key configured, a run whose chat completion request
\* fails, or whose response has no choice or cannot be parsed into an
\* estimate, has sent exactly one request, has not called the local
\* classifier, and sends no update and no create: the ledger stays as it is.
C14_FailedGptAnalysisWritesNothing ==
    [][(/\ cycle'.n = cycle.n + 1
        /\ cfg.openai
        /\ cycle'.classify.reply \in GptReplies \ {"ok"})
       => /\ cycle'.classify.backend = "gpt"
          /\ cycle'.classify.requests = 1
          /\ cycle'.classify.local_calls = 0
          /\ cycle'.classify.result = "Err"
          /\ cycle'.run.update = "none"
          /\ cycle'.run.create = "none"
          /\ ledger' = ledger]_vars

\* The first run created an entry; the second run's response could not be
\* parsed and the ledger still holds that one entry.
C14_Witness ==
    /\ cfg.openai
    /\ cycle.n = 2
    /\ cycle.classify.reply = "unparsable"
    /\ cycle.classify.requests = 1
    /\ Len(ledger) = 1
    /\ ledger[1].start >= 900

(***************************************************************************)
(* Properties of the merge and of remote failures (specification           *)
(* SpecReconcile).                                                         *)
(***************************************************************************)
\* C16: a run in which the project listing, the lookback listing or the
\* creation fails writes nothing: the ledger afterwards is the ledger before.
C16_RemoteFailureForfeitsWrite ==
    [][(/\ Ran
        /\ \/ cycle'.run.stage = "projects"
           \/ cycle'.run.entries_reply = "fail"
           \/ cycle'.run.create = "failed")
       => ledger' = ledger]_vars

\* C16, amended: a run in which the project listing or the creation fails
\* writes nothing and returns the error, a failed project listing ending the
\* run before any other call; a run whose lookback listing fails sends no
\* update and goes on to create_time_entry, appending the new block's entry
\* when that call succeeds.
C16_ListingFailureForfeitsOnlyMerge ==
    [][Ran =>
        /\ (cycle'.run.stage = "projects" \/ cycle'.run.create = "failed")
             => /\ ledger' = ledger
                /\ cycle'.run.result = "Err"
        /\ cycle'.run.stage = "projects"
             => /\ cycle'.run.entries_reply = "none"
                /\ cycle'.run.update = "none"
                /\ cycle'.run.create = "none"
        /\ cycle'.run.entries_reply = "fail"
             => /\ cycle'.run.update = "none"
                /\ cycle'.run.create \in {"ok", "failed"}
                /\ cycle'.run.create = "ok"
                     => /\ ledger' = Append(ledger, ledger'[Len(ledger')])
                        /\ ledger'[Len(ledger')].start = NewStart
                        /\ ledger'[Len(ledger')].stop = Some(NewStop)]_vars

\* The first run created an entry; in the second the project listing failed
\* and the ledger still holds that one entry.
C16_Witness ==
    /\ cycle.n = 2
    /\ cycle.run.stage = "projects"
    /\ cycle.run.result = "Err"
    /\ cycle.confidence >= GateConfidence
    /\ Len(ledger) = 1
    /\ ledger[1].start >= 900

\* C17: after a successful merge the stop of the updated entry is not earlier
\* than the stop it had before.
C17_MergeNeverMovesStopBack ==
    [][(Ran /\ cycle'.run.stage = "merged")
       => ledger'[cycle'.run.candidate[1]].stop[1]
            >= ledger[cycle'.run.candidate[1]].stop[1]]_vars

C15_CalendarFailureStillWritesSample ==
    (last_collect.ticked /\ last_collect.stage = "calendar")
        => (last_collect.wrote /\ last_collect.result = "Ok")

\* C19: on every sample tick at which at least 900 s have passed since
\* block_start, whatever the idle reading, the tracker sets total_idle_time to
\* 0, clears idle_start and sets block_start to the time of the tick.
C19_RefreshOnEveryTickAfter900 ==
    [][(CollectStep /\ now - block_start >= RefreshSecs)
       => /\ total_idle_time' = 0
          /\ idle_start' = None
          /\ block_start' = now]_vars

(***************************************************************************)
(* Properties of the project matcher (specification SpecMatch).            *)
(***************************************************************************)
\* infer_project_id has scored the listing.
Scored == matching.done /\ matching.result = "Ok"

\* The lower-cased name of the i-th listed project, and the lower-cased label
NameLower(i) == ToLowercase(projects[i].name)

LabelLower == ToLowercase(matching.activity)

\* How many of the project name's words are among the label's words
WordsFound(i) ==
    LET pw == SplitWhitespace(NameLower(i))
        lw == SplitWhitespace(LabelLower)
    IN  Cardinality({k \in 1..Len(pw) : \E m \in 1..Len(lw) : lw[m] = pw[k]})

WordCount(i) == Len(SplitWhitespace(NameLower(i)))

\* C21, as stated: the base score of project name p against label l, compared
\* in lower case, is 1.0 if p = l, else 0.8 if p is a substring of l, else 0.7
\* if l is a substring of p, else 0.6 times the share of p's words found
\* among l's words.
C21_BaseScoreAsStated ==
    Scored =>
        \A i \in 1..Len(projects) :
            IF NameLower(i) = LabelLower THEN matching.base[i] = 1000
            ELSE IF Contains(LabelLower, NameLower(i)) THEN matching.base[i] = 800
            ELSE IF Contains(NameLower(i), LabelLower) THEN matching.base[i] = 700
            ELSE matching.base[i] * WordCount(i) = 600 * WordsFound(i)

\* C21, amended: the same with the two substring cases the other way round:
\* 0.8 if l is a substring of p, else 0.7 if p is a substring of l.
C21_BaseScore ==
    Scored =>
        \A i \in 1..Len(projects) :
            IF NameLower(i) = LabelLower THEN matching.base[i] = 1000
            ELSE IF Contains(NameLower(i), LabelLower) THEN matching.base[i] = 800
            ELSE IF Contains(LabelLower, NameLower(i)) THEN matching.base[i] = 700
            ELSE matching.base[i] * WordCount(i) = 600 * WordsFound(i)

\* Label "REPORT" against Report (equal), Report Writing (contains the label)
\* and Writing (no word in common).
C21_Witness ==
    /\ Scored
    /\ matching.activity = StrUpperReport
    /\ Len(projects) = 3
    /\ projects[1].name = StrReport /\ matching.base[1] = 1000
    /\ projects[2].name = StrReportWriting /\ matching.base[2] = 800
    /\ projects[3].name = StrWriting /\ matching.base[3] = 0

\* C22: when some project has a score of at least 0.5, the project inferred
\* is the first listed among those with the highest score; otherwise none is.
C22_FirstListedOfHighestScore ==
    Scored =>
        LET top == {i \in 1..Len(projects) :
                      /\ matching.score[i] > 0
                      /\ \A j \in 1..Len(projects) :
                            matching.score[j] <= matching.score[i]}
        IN  IF \E i \in top : matching.score[i] >= 500
            THEN \E i \in top :
                    /\ \A j \in top : i <= j
                    /\ matching.project_id = Some(projects[i].id)
            ELSE matching.project_id = None

\* Label "Writing Report" with the projects listed as Report, Writing: both
\* score 0.7 and Report, listed first, is selected.
C22_Witness ==
    /\ Scored
    /\ matching.activity = StrWritingReport
    /\ matching.window_title = None /\ matching.calendar_event = None
    /\ Len(projects) = 2
    /\ projects[1].name = StrReport /\ projects[2].name = StrWriting
    /\ matching.score = << 700, 700 >>
    /\ matching.project_id = Some(projects[1].id)

\* The window title, or the calendar event's title, contains the name.
WindowBonusApplies(i) ==
    /\ matching.window_title # None
    /\ Contains(ToLowercase(matching.window_title[1]), NameLower(i))

CalendarBonusApplies(i) ==
    /\ matching.calendar_event # None
    /\ Contains(ToLowercase(matching.calendar_event[1]), NameLower(i))

\* The score is the base score plus 0.2 and 0.3 for the bonuses that apply,
\* between 0 and 1.5.
ScoreIsBasePlusBonuses(i) ==
    /\ matching.score[i] = matching.base[i]
                            + (IF WindowBonusApplies(i) THEN 200 ELSE 0)
                            + (IF CalendarBonusApplies(i) THEN 300 ELSE 0)
    /\ matching.score[i] \in 0..1500

\* C29, as stated: the bonuses are added to the base score, the score lies in
\* [0, 1.5], and a project of base score 0 is the one inferred exactly when
\* both bonuses apply to it and no other project scores higher.
C29_ZeroBaseInferredIffBothBonuses ==
    Scored =>
        \A i \in 1..Len(projects) :
            /\ ScoreIsBasePlusBonuses(i)
            /\ matching.base[i] = 0 =>
                 (matching.project_id = Some(projects[i].id)
                    <=> /\ WindowBonusApplies(i) /\ CalendarBonusApplies(i)
                        /\ \A j \in 1..Len(projects) :
                              matching.score[j] <= matching.score[i])

\* C29, amended: ... exactly when both bonuses apply to it, no other project
\* scores higher and no project listed before it has the same score.
C29_ZeroBaseInferredIffBothBonusesAndFirst ==
    Scored =>
        \A i \in 1..Len(projects) :
            /\ ScoreIsBasePlusBonuses(i)
            /\ matching.base[i] = 0 =>
                 (matching.project_id = Some(projects[i].id)
                    <=> /\ WindowBonusApplies(i) /\ CalendarBonusApplies(i)
                        /\ \A j \in 1..Len(projects) :
                              matching.score[j] <= matching.score[i]
                        /\ \A j \in 1..(i - 1) :
                              matching.score[j] < matching.score[i])

\* Label "Mail", both titles "Report draft": Draft, listed after Writing
\* (score 0), has base score 0 and both bonuses and is inferred.
C29_Witness ==
    /\ Scored
    /\ matching.activity = StrMail
    /\ Len(projects) = 2
    /\ projects[1].name = StrWriting /\ projects[2].name = StrDraft
    /\ matching.base = << 0, 0 >>
    /\ matching.score = << 0, 500 >>
    /\ matching.project_id = Some(projects[2].id)

(***************************************************************************)
(* Properties of the classifiers (specification SpecClassify).             *)
(***************************************************************************)
\* The number of samples whose lower-cased title is t
Occurrences(t) ==
    Cardinality({i \in 1..Len(classified.data) : ToLowercase(classified.data[i]) = t})

\* C23: for a non-empty sample sequence every run of analyze_locally returns
\* the label of a lower-cased window title whose number of occurrences is
\* maximal among the titles, with that number over the number of samples as
\* the confidence.
C23_PrimaryFromMostFrequentTitle ==
    (classified.done /\ classified.backend = "local" /\ classified.data # << >>) =>
        \A r \in 1..Len(classified.runs) :
            LET run == classified.runs[r]
            IN  /\ run.result = "Ok"
                /\ \E i \in 1..Len(classified.data) :
                      LET t == ToLowercase(classified.data[i])
                      IN  /\ \A j \in 1..Len(classified.data) :
                                Occurrences(ToLowercase(classified.data[j])) <= Occurrences(t)
                          /\ run.window_title = Some(t)
                          /\ run.activity = CategorizeByKeywords(t)
                          /\ run.confidence = << Occurrences(t), Len(classified.data) >>

\* The titles Firefox - Gmail, Firefox - Gmail, Terminal: mail check with
\* confidence 2/3 and the one alternative terminal work with confidence 1/3.
C23_Witness ==
    /\ classified.done
    /\ classified.backend = "local"
    /\ classified.data = << StrFirefoxGmail, StrFirefoxGmail, StrTerminal >>
    /\ classified.runs[1].activity = LabelMail
    /\ classified.runs[1].confidence = << 2, 3 >>
    /\ classified.runs[1].alternatives =
          << [activity |-> LabelTerminal, confidence |-> << 1, 3 >>] >>

\* C24: in every estimate either classifier returns, no alternative has the
\* primary label.
C24_NoAlternativeWithPrimaryLabel ==
    classified.done =>
        \A r \in 1..Len(classified.runs) :
            classified.runs[r].result = "Ok" =>
                \A k \in 1..Len(classified.runs[r].alternatives) :
                    classified.runs[r].alternatives[k].activity
                        # classified.runs[r].activity

\* The member of a JSON value, if it is an object that has it
Member(value, key) ==
    IF value.t = "object" THEN value.members[key] ELSE JAbsent

\* An entry of alternatives with a string activity and a numeric confidence
CompleteEntry(entry) ==
    /\ Member(entry, "activity").t = "string"
    /\ Member(entry, "confidence").t = "number"

\* The entries of the response's alternatives that are complete, in order
CompleteEntries(value) ==
    LET alts == Member(value, "alternatives")
        kept == IF alts.t = "array" THEN SelectSeq(alts.a, CompleteEntry) ELSE << >>
    IN  [i \in 1..Len(kept) |-> [activity |-> kept[i].members.activity.s,
                                 confidence |-> kept[i].members.confidence.n]]

\* C25: a response that was received gives an error when it has no choice,
\* when the content is not JSON, and when activity is not a string or
\* confidence is not a number; otherwise it gives an estimate with that
\* activity and confidence whose alternatives are the entries of the
\* response's alternatives that have a string activity and a numeric
\* confidence, in order.
C25_ResponseErrorsAndAlternatives ==
    (classified.done /\ classified.backend = "gpt" /\ classified.reply.sent) =>
        LET run == classified.runs[1]
            choices == classified.reply.choices
        IN  IF choices = << >>
            THEN run.result = "Err" /\ run.error = "No response from GPT"
            ELSE IF choices[1] = None \/ ~choices[1][1].json
            THEN /\ run.result = "Err"
                 /\ run.error = "Failed to parse GPT response as JSON"
            ELSE LET value == choices[1][1].value
                 IN  IF Member(value, "activity").t # "string"
                        \/ Member(value, "confidence").t # "number"
                     THEN /\ run.result = "Err"
                          /\ run.error \in {"No activity in response",
                                            "No confidence in response"}
                     ELSE /\ run.result = "Ok"
                          /\ run.activity = value.members.activity.s
                          /\ run.confidence = value.members.confidence.n
                          /\ run.alternatives = CompleteEntries(value)

\* A response with two alternatives, the first without confidence, the second
\* complete: the estimate has the second one only.
C25_Witness ==
    /\ classified.done
    /\ classified.backend = "gpt"
    /\ classified.reply.sent
    /\ classified.reply.choices # << >>
    /\ classified.reply.choices[1] # None
    /\ classified.reply.choices[1][1].json
    /\ Member(classified.reply.choices[1][1].value, "alternatives")
         = JArr(<< JObj(JStr(LabelWeb), JAbsent, JAbsent),
                   JObj(JStr(LabelTerminal), JNum(20), JAbsent) >>)
    /\ classified.runs[1].result = "Ok"
    /\ classified.runs[1].alternatives
         = << [activity |-> LabelTerminal, confidence |-> 20] >>

\* C30: two runs of analyze_locally on the same sample sequence return the
\* same label, confidence and alternatives.
C30_LocalClassifierDeterministic ==
    (classified.done /\ classified.backend = "local" /\ Len(classified.runs) = 2)
        => classified.runs[1] = classified.runs[2]

(***************************************************************************)
(* The idle total between two refreshes of the tracker.                    *)
(***************************************************************************)
\* A step that leaves block_start alone: no 900-second refresh happened in it.
NoRefresh == block_start' = block_start

\* The tick before this one returned early on the idle total.
SuppressedBefore == last_collect.ticked /\ last_collect.stage = "suppressed"

\* C28: in every step without a 900-second refresh the current idle total
\* (total_idle_time plus the idle span in progress) does not decrease, and a
\* sample tick that follows a suppressed tick without a refresh in between is
\* suppressed too, whatever the idle reading of that tick is.
C28_IdleTotalKeptUntilRefresh ==
    [][/\ NoRefresh => CurrentIdleTime(Tracker, now)' >= CurrentIdleTime(Tracker, now)
       /\ (SuppressedBefore /\ CollectStep /\ NoRefresh)
            => last_collect'.stage = "suppressed"]_vars

\* A tick is suppressed although its reading shows the user active and the
\* idle span had been closed by an earlier tick.
C28_Witness ==
    /\ last_collect.ticked
    /\ last_collect.stage = "suppressed"
    /\ last_collect.reading.ok
    /\ ~last_collect.is_idle
    /\ ~last_collect.closed_span
    /\ ~last_collect.refreshed
    /\ idle_start = None
    /\ Suppressed(total_idle_time)

(***************************************************************************)
(* The block an analysis run of the daemon reconciles.                     *)
(***************************************************************************)
\* The analysis arm enters analyze_and_register in this step.
AnalysisEntered == pc = "select" /\ pc' = "analyze"

\* AnalysisResult::timestamp: data.first() of get_recent_data, the newest
\* row, in milliseconds.
EstimateTimestamp == RecentData(window_data, Wall(now))[1] * 1000

\* stop_time of the block register_to_toggl derives from the estimate.
ReconciledStop ==
    BlockStopTime(BlockStartTime(EstimateTimestamp, cfg.time_block_division),
                  cfg.time_block_division)

\* C27: whenever the analysis timer is serviced at its boundary B and an
\* analysis is run, the reconciled block is the one that stops at B, in
\* whatever order a sample tick due at the same instant was serviced.
C27_ReconciledBlockEndsAtBoundary ==
    [][(AnalysisEntered /\ now = analysis_timer)
        => ReconciledStop = Wall(analysis_timer) * 1000]_vars

(***************************************************************************)
(* How a reconciliation cycle ends.                                        *)
(***************************************************************************)
\* A step of AnalyzeAndRegister, whether or not the classifier answered
Cycled == cycle'.n = cycle.n + 1

\* The cycle returned before infer_project_id: it called the ledger for nothing.
EndedSkipped ==
    /\ cycle'.run.stage \in {"none", "below_gate", "private", "low_confidence"}
    /\ cycle'.run.entries_reply = "none"
    /\ cycle'.run.update = "none"
    /\ cycle'.run.create = "none"
    /\ ledger' = ledger

\* The cycle's update succeeded and it returned without a create.
EndedMerged ==
    /\ cycle'.run.stage = "merged"
    /\ cycle'.run.update = "ok"
    /\ cycle'.run.create = "none"
    /\ Len(ledger') = Len(ledger)

\* The cycle called create_time_entry (once: the call is the last statement).
EndedCreate ==
    /\ cycle'.run.stage = "create"
    /\ cycle'.run.create \in {"ok", "failed"}
    /\ cycle'.run.update # "ok"
    /\ Len(ledger') = Len(ledger) + (IF cycle'.run.create = "ok" THEN 1 ELSE 0)

\* get_projects failed: that request was made, and no other.
EndedProjectsFailed ==
    /\ cycle'.run.stage = "projects"
    /\ cycle'.run.result = "Err"
    /\ cycle'.run.entries_reply = "none"
    /\ cycle'.run.update = "none"
    /\ cycle'.run.create = "none"
    /\ ledger' = ledger

\* The entries of the ledger the cycle changed
EntriesChanged == {i \in 1..Len(ledger) : ledger'[i] # ledger[i]}

\* At most one entry was updated, and none when the update did not succeed.
AtMostOneUpdate ==
    /\ Len(ledger') >= Len(ledger)
    /\ Cardinality(EntriesChanged) <= (IF cycle'.run.update = "ok" THEN 1 ELSE 0)

\* C26 as stated: every cycle ends skipped without a ledger request, or with
\* one successful update and no create, or with one create request; at most
\* one update is sent and no create follows a successful update.
C26_ThreeOutcomes ==
    [][Cycled =>
        /\ Cardinality({o \in {<<1, EndedSkipped>>, <<2, EndedMerged>>,
                                <<3, EndedCreate>>} : o[2]}) = 1
        /\ AtMostOneUpdate
        /\ cycle'.run.update = "ok" => cycle'.run.create = "none"]_vars

\* C26, amended: every cycle ends in exactly one of four ways: skipped
\* without a ledger request; failed on the project listing, its only
\* request; one successful update and no create; one create request.  At
\* most one update is sent and no create follows a successful update.
C26_FourOutcomes ==
    [][Cycled =>
        /\ Cardinality({o \in {<<1, EndedSkipped>>, <<2, EndedMerged>>,
                                <<3, EndedCreate>>, <<4, EndedProjectsFailed>>}
                          : o[2]}) = 1
        /\ AtMostOneUpdate
        /\ cycle'.run.update = "ok" => cycle'.run.create = "none"]_vars

\* A second cycle whose update was refused went on to its one create, after a
\* first cycle that had created an entry.
C26_Witness ==
    /\ cycle.n = 2
    /\ cycle.run.stage = "create"
    /\ cycle.run.update \in {"status", "transport"}
    /\ cycle.run.create = "ok"
    /\ IsSome(cycle.run.candidate)
    /\ Len(ledger) >= 2

====
